---- MODULE Spec2Model ----
(***************************************************************************)
(* The draft-edit-and-save workflow of the portfolio builder: the edit     *)
(* page (EditPortfolioPage), its two upload boxes (FileUploadBox) and the  *)
(* persisted Zustand store (usePortfolioStore).                            *)
(*                                                                         *)
(* React runs one event handler at a time.  A render caused by a discrete  *)
(* event or by a store update is committed synchronously and its passive   *)
(* effects are flushed before the next event or promise continuation runs: *)
(* the validation effect is the step validateForm, which every other step  *)
(* waits for (effectPending).  The only handler that suspends is           *)
(* saveChanges, at each of its awaits; it resumes with the values its      *)
(* closure captured when it was invoked (saveJob).                         *)
(*                                                                         *)
(* The page can be left at any time through the link of its header and     *)
(* opened again from the home page.  A saveChanges call suspended at an    *)
(* await and the timers of a finished save outlive the page that started   *)
(* them (orphans, staleHideTimers): they still write the store and call    *)
(* the router, while their setState calls no longer do anything.           *)
(***************************************************************************)
EXTENDS Integers, Sequences, FiniteSets, TLC

VARIABLES
    storage,        \* localStorage["portfolio-storage"]: NoRecord or a record
    store,          \* in-memory state of usePortfolioStore
    route,          \* "edit" (EditPortfolioPage mounted) or "home"
    profile,        \* draft: ProfileData
    portfolioItems, \* draft: sequence of PortfolioItem
    files,          \* draft: pending raw File per slot (NoFile when none)
    imageStatus,    \* draft: ImageStatus per slot
    errors,         \* FormErrors, as the set of its keys
    isFormValid,
    effectPending,  \* the useEffect that calls validateForm is scheduled
    isSaving,
    savePc,         \* the await saveChanges is suspended at, or "idle"
    saveJob,        \* the values captured by the suspended saveChanges
    notification,   \* notification.show
    showPreview,    \* the preview modal is open
    previewData,    \* <<>> (null) or <<the data of the last preview>>
    hideTimers,     \* pending 2000 ms timers (hide the notification)
    navTimers,      \* pending 500 ms timers (router.push("/"))
    previewUrl,     \* FileUploadBox state, per slot
    boxError,       \* FileUploadBox error.show, per slot
    errorTimers,    \* pending 3000 ms timers of triggerError, per slot
    liveUrls,       \* object URLs created and not revoked
    nextUrl,        \* number of object URLs created so far
    now,            \* last value read from Date.now()
    alert,          \* the alert() raised by the last handler, "none" if none
    used,           \* number of user events handled so far
    orphans,        \* suspended saveChanges calls of pages since unmounted
    staleHideTimers \* pending 2000 ms timers of pages since unmounted

vars == <<storage, store, route, profile, portfolioItems, files, imageStatus,
          errors, isFormValid, effectPending, isSaving, savePc, saveJob,
          notification, showPreview, previewData, hideTimers, navTimers,
          previewUrl, boxError, errorTimers, liveUrls, nextUrl, now, alert,
          used, orphans, staleHideTimers>>

(***************************************************************************)
(* Bounds of the model                                                     *)
(***************************************************************************)
MaxOps == 3         \* user events handled after the first mount
MaxClockSteps == 1  \* distinct later values Date.now() returns

(***************************************************************************)
(* Program constants                                                       *)
(***************************************************************************)
MaxEntries == 10
MaxFileBytes == 3145728   \* 3 * 1024 * 1024
PlaceholderId == 1
ClockStart == MaxEntries   \* Date.now() at first use: above every stored id
AbsentId == 0              \* an id no entry has: below every stored id

Slots == {"background", "profile"}
ProfileFields == {"name", "title", "description"}
TextItemFields == {"position", "company", "description"}
DateItemFields == {"startDate", "endDate"}
ItemFields == TextItemFields \cup DateItemFields

(***************************************************************************)
(* Values.  Files, encoded images and URLs are records [tag, src, n] so    *)
(* that a conversion changes the value it is applied to.                   *)
(***************************************************************************)
Null == [tag |-> "null", src |-> "", n |-> 0]
NoFile == Null

RawFile(name) == [tag |-> "file", src |-> name, n |-> 0]

\* What the user can pick in the file dialog or drop on the box.
FileName == {"a.png", "b.jpg", "big.png", "c.gif"}

FileSize(f) ==
    CASE f.src = "a.png" -> 2048
      [] f.src = "b.jpg" -> MaxFileBytes
      [] f.src = "big.png" -> MaxFileBytes + 1
      [] OTHER -> 1024

FileType(f) ==
    CASE f.src = "a.png" -> "image/png"
      [] f.src = "b.jpg" -> "image/jpeg"
      [] f.src = "big.png" -> "image/png"
      [] OTHER -> "image/gif"

allowedTypes == {"image/png", "image/jpeg", "image/jpg"}

\* browser-image-compression: a new, downscaled File of the same picture.
imageCompression(f) == [tag |-> "compressed", src |-> f.src, n |-> 0]

\* FileReader.readAsDataURL: the data URL of exactly the bytes it is given.
fileToDataUrl(f) ==
    [tag |-> IF f.tag = "compressed" THEN "data-compressed" ELSE "data-raw",
     src |-> f.src, n |-> 0]

\* URL.createObjectURL: a fresh blob: URL on every call.
createObjectURL(f, k) == [tag |-> "blob", src |-> f.src, n |-> k]

IsBlob(u) == u.tag = "blob"

\* JavaScript truthiness of a string | null image value.
Truthy(v) == v # Null

\* String.prototype.trim on the strings the model types.
Whitespace == {"", " "}
Trim(s) == IF s \in Whitespace THEN "" ELSE s

TextInput == {" ", "x"}
DateInput == {"", "2024-06"}     \* an <input type="month"> yields "" or YYYY-MM

(***************************************************************************)
(* The store                                                               *)
(***************************************************************************)
placeholderData ==
    [profile |-> [name |-> "John Doe",
                  title |-> "Senior Frontend Developer",
                  description |-> "This is placeholder data."],
     portfolios |-> <<[id |-> PlaceholderId,
                       position |-> "Example Position",
                       company |-> "Tech Company",
                       startDate |-> "2023-01",
                       endDate |-> "2025-01",
                       description |-> "This is a sample portfolio entry."]>>,
     images |-> [background |-> Null, profile |-> Null]]

\* A record an earlier session saved: what localStorage may hold at start.
EarlierRecord ==
    [profile |-> [name |-> "Ann", title |-> "Dev", description |-> "Bio"],
     portfolios |-> <<>>,
     images |-> [background |-> [tag |-> "data-compressed", src |-> "old-bg.png", n |-> 0],
                 profile |-> [tag |-> "data-compressed", src |-> "old-me.jpg", n |-> 0]]]

\* A record of MaxEntries - 1 entries an earlier session saved.
FullRecord ==
    [profile |-> [name |-> "Ann", title |-> "Dev", description |-> "Bio"],
     portfolios |-> [i \in 1..(MaxEntries - 1) |->
                        [id |-> i, position |-> "Engineer", company |-> "Acme",
                         startDate |-> "2020-01", endDate |-> "2021-01",
                         description |-> "Work"]],
     images |-> [background |-> [tag |-> "data-compressed", src |-> "old-bg.png", n |-> 0],
                 profile |-> [tag |-> "data-compressed", src |-> "old-me.jpg", n |-> 0]]]

\* localStorage holds no record (<<>>) or one record (<<r>>).
NoRecord == <<>>

\* persist(): the store starts from placeholderData and is overwritten by
\* the record in localStorage when there is one.
Hydrate(st) ==
    IF st = NoRecord THEN placeholderData ELSE st[1]

\* Mutant: the action merges the profile and the images only.
setPortfolioData_dropsPortfolios(state, data) ==
    [k \in DOMAIN state |->
        IF k \in DOMAIN data /\ k # "portfolios" THEN data[k] ELSE state[k]]

\* Mutant: the action replaces the state, a key it is not given goes back to
\* its placeholder value.
setPortfolioData_replaces(state, data) ==
    [k \in DOMAIN state |-> IF k \in DOMAIN data THEN data[k] ELSE placeholderData[k]]

\* setPortfolioData: set((state) => ({ ...state, ...data }))
setPortfolioData(state, data) ==
    [k \in DOMAIN state |-> IF k \in DOMAIN data THEN data[k] ELSE state[k]]

\* HomePage: the props it passes to ProfileSection and PortfolioSection, read
\* from usePortfolioStore() on every change of the store.
HomeView ==
    [profile |-> store.profile,
     backgroundImageUrl |-> store.images["background"],
     profileImageUrl |-> store.images["profile"],
     portfolios |-> store.portfolios]

(***************************************************************************)
(* Validation                                                              *)
(***************************************************************************)
\* Mutant: the profile fields are compared with "" without trim().
ProfileErrors_noTrim(p) ==
    {<<"profile_" \o f, 0>> : f \in {g \in ProfileFields : p[g] = ""}}

ProfileErrors(p) ==
    {<<"profile_" \o f, 0>> : f \in {g \in ProfileFields : Trim(p[g]) = ""}}

ItemErrors(item) ==
    {<<"item_" \o f, item.id>> : f \in {g \in TextItemFields : Trim(item[g]) = ""}}
    \cup {<<"item_" \o f, item.id>> : f \in {g \in DateItemFields : item[g] = ""}}

\* newErrors of validateForm
FormErrorsOf(p, items) ==
    ProfileErrors(p) \cup UNION {ItemErrors(items[i]) : i \in 1..Len(items)}

\* Mutant: only the background slot is checked.
FormValidOf_backgroundOnly(p, items, status) ==
    LET backgroundIsValid == status["background"] # "removed"
        fieldsValid == FormErrorsOf(p, items) = {}
    IN  backgroundIsValid /\ fieldsValid

\* Mutant: a draft without entries is not valid.
FormValidOf_needsEntry(p, items, status) ==
    LET backgroundIsValid == status["background"] # "removed"
        profileIsValid == status["profile"] # "removed"
        filesValid == backgroundIsValid /\ profileIsValid
        fieldsValid == FormErrorsOf(p, items) = {} /\ Len(items) > 0
    IN  filesValid /\ fieldsValid

\* the value validateForm passes to setIsFormValid
FormValidOf(p, items, status) ==
    LET backgroundIsValid == status["background"] # "removed"
        profileIsValid == status["profile"] # "removed"
        filesValid == backgroundIsValid /\ profileIsValid
        fieldsValid == FormErrorsOf(p, items) = {}
    IN  filesValid /\ fieldsValid

\* The useEffect on [validateForm]: runs validateForm after a render in which
\* profile, portfolioItems or imageStatus is a new object.
validateForm ==
    /\ effectPending
    /\ errors' = FormErrorsOf(profile, portfolioItems)
    /\ isFormValid' = FormValidOf(profile, portfolioItems, imageStatus)
    /\ effectPending' = FALSE
    /\ UNCHANGED <<storage, store, route, profile, portfolioItems, files,
                   imageStatus, isSaving, savePc, saveJob, notification,
                   hideTimers, navTimers, previewUrl, boxError, errorTimers,
                   liveUrls, nextUrl, now, alert, used,
                   showPreview, previewData,
                   orphans, staleHideTimers>>

(***************************************************************************)
(* Mounting the edit page                                                  *)
(***************************************************************************)
\* Mutant: a slot starts as initial whether the store has an image or not.
InitialStatus_alwaysInitial(st) ==
    [s \in Slots |-> "initial"]

\* useState initial values of EditPortfolioPage and of its upload boxes.
InitialStatus(st) ==
    [s \in Slots |-> IF Truthy(st.images[s]) THEN "initial" ELSE "removed"]

InitialPreview(st) ==
    [s \in Slots |-> IF Truthy(st.images[s]) THEN st.images[s] ELSE Null]

NoJob == [profile |-> placeholderData.profile, portfolios |-> <<>>,
          files |-> [s \in Slots |-> NoFile],
          imageStatus |-> [s \in Slots |-> "removed"],
          images |-> [s \in Slots |-> Null]]

InitialStorage == {NoRecord, <<EarlierRecord>>, <<FullRecord>>}

Init ==
    /\ storage \in InitialStorage
    /\ store = Hydrate(storage)
    /\ route = "edit"
    /\ profile = store.profile
    /\ portfolioItems = store.portfolios
    /\ files = [s \in Slots |-> NoFile]
    /\ imageStatus = InitialStatus(store)
    /\ errors = {}
    /\ isFormValid = FALSE
    /\ effectPending = TRUE
    /\ isSaving = FALSE
    /\ savePc = "idle"
    /\ saveJob = NoJob
    /\ notification = FALSE
    /\ showPreview = FALSE
    /\ previewData = <<>>
    /\ hideTimers = 0
    /\ navTimers = 0
    /\ previewUrl = InitialPreview(store)
    /\ boxError = [s \in Slots |-> FALSE]
    /\ errorTimers = [s \in Slots |-> 0]
    /\ liveUrls = {}
    /\ nextUrl = 0
    /\ now = ClockStart
    /\ alert = "none"
    /\ used = 0
    /\ orphans = <<>>
    /\ staleHideTimers = 0

\* A handler of the form can run: the page is mounted, the effects of the last
\* render have been flushed, and the preview modal (a full-screen overlay)
\* does not cover the form.
Ready == route = "edit" /\ ~effectPending /\ ~showPreview

(***************************************************************************)
(* Text and entry handlers                                                 *)
(***************************************************************************)
\* Mutant: every keystroke in the profile form is written through to the store.
handleProfileChange_writeThrough(name, value) ==
    /\ Ready
    /\ used < MaxOps
    /\ profile' = [profile EXCEPT ![name] = value]
    /\ store' = setPortfolioData(store, [profile |-> profile'])
    /\ storage' = <<store'>>
    /\ effectPending' = TRUE
    /\ alert' = "none"
    /\ used' = used + 1
    /\ UNCHANGED <<route, portfolioItems, files, imageStatus,
                   errors, isFormValid, isSaving, savePc, saveJob,
                   notification, hideTimers, navTimers, previewUrl, boxError,
                   errorTimers, liveUrls, nextUrl, now,
                   showPreview, previewData,
                   orphans, staleHideTimers>>

handleProfileChange(name, value) ==
    /\ Ready
    /\ used < MaxOps
    /\ profile' = [profile EXCEPT ![name] = value]
    /\ effectPending' = TRUE
    /\ alert' = "none"
    /\ used' = used + 1
    /\ UNCHANGED <<storage, store, route, portfolioItems, files, imageStatus,
                   errors, isFormValid, isSaving, savePc, saveJob,
                   notification, hideTimers, navTimers, previewUrl, boxError,
                   errorTimers, liveUrls, nextUrl, now,
                   showPreview, previewData,
                   orphans, staleHideTimers>>

\* Mutant: the matching entry is rebuilt from the edited field alone
\* ({ id, [name]: value } without ...item).
MapItems_dropsFields(items, id, name, value) ==
    [i \in 1..Len(items) |->
        IF items[i].id = id
        THEN [[f \in DOMAIN items[i] |-> IF f = "id" THEN id ELSE ""] EXCEPT ![name] = value]
        ELSE items[i]]

\* prev.map((item) => (item.id === id ? { ...item, [name]: value } : item))
MapItems(items, id, name, value) ==
    [i \in 1..Len(items) |->
        IF items[i].id = id THEN [items[i] EXCEPT ![name] = value] ELSE items[i]]

\* Mutant: portfolioItems is missing from the dependencies of validateForm,
\* so an entry edit does not run the validation effect.
handlePortfolioChange_noRevalidate(id, name, value) ==
    /\ Ready
    /\ used < MaxOps
    /\ portfolioItems' = MapItems(portfolioItems, id, name, value)
    /\ alert' = "none"
    /\ used' = used + 1
    /\ UNCHANGED <<storage, store, route, profile, files, imageStatus,
                   errors, isFormValid, effectPending, isSaving, savePc,
                   saveJob, notification, hideTimers, navTimers, previewUrl,
                   boxError, errorTimers, liveUrls, nextUrl, now,
                   showPreview, previewData, orphans, staleHideTimers>>

handlePortfolioChange(id, name, value) ==
    /\ Ready
    /\ used < MaxOps
    /\ portfolioItems' = MapItems(portfolioItems, id, name, value)
    /\ effectPending' = TRUE
    /\ alert' = "none"
    /\ used' = used + 1
    /\ UNCHANGED <<storage, store, route, profile, files, imageStatus,
                   errors, isFormValid, isSaving, savePc, saveJob,
                   notification, hideTimers, navTimers, previewUrl, boxError,
                   errorTimers, liveUrls, nextUrl, now,
                   showPreview, previewData,
                   orphans, staleHideTimers>>

BlankItem(id) ==
    [id |-> id, position |-> "", company |-> "", startDate |-> "",
     endDate |-> "", description |-> ""]

\* Mutant: the capacity check uses >.
addPortfolioItem_offByOne(t) ==
    /\ Ready
    /\ used < MaxOps
    /\ used' = used + 1
    /\ IF Len(portfolioItems) > MaxEntries
       THEN /\ alert' = "Maximum 10 portfolio entries allowed"
            /\ UNCHANGED <<portfolioItems, effectPending, now>>
       ELSE /\ portfolioItems' = Append(portfolioItems, BlankItem(t))
            /\ effectPending' = TRUE
            /\ now' = t
            /\ alert' = "none"
    /\ UNCHANGED <<storage, store, route, profile, files, imageStatus,
                   errors, isFormValid, isSaving, savePc, saveJob,
                   notification, hideTimers, navTimers, previewUrl, boxError,
                   errorTimers, liveUrls, nextUrl,
                   showPreview, previewData,
                   orphans, staleHideTimers>>

\* addPortfolioItem; t is the value Date.now() returns.
addPortfolioItem(t) ==
    /\ Ready
    /\ used < MaxOps
    /\ used' = used + 1
    /\ IF Len(portfolioItems) >= MaxEntries
       THEN /\ alert' = "Maximum 10 portfolio entries allowed"
            /\ UNCHANGED <<portfolioItems, effectPending, now>>
       ELSE /\ portfolioItems' = Append(portfolioItems, BlankItem(t))
            /\ effectPending' = TRUE
            /\ now' = t
            /\ alert' = "none"
    /\ UNCHANGED <<storage, store, route, profile, files, imageStatus,
                   errors, isFormValid, isSaving, savePc, saveJob,
                   notification, hideTimers, navTimers, previewUrl, boxError,
                   errorTimers, liveUrls, nextUrl,
                   showPreview, previewData,
                   orphans, staleHideTimers>>

\* Mutant: the filter keeps the matching entries (=== for !==).
FilterItems_inverted(items, id) == SelectSeq(items, LAMBDA item : item.id = id)

\* prev.filter((item) => item.id !== id)
FilterItems(items, id) == SelectSeq(items, LAMBDA item : item.id # id)

removePortfolioItem(id) ==
    /\ Ready
    /\ used < MaxOps
    /\ portfolioItems' = FilterItems(portfolioItems, id)
    /\ effectPending' = TRUE
    /\ alert' = "none"
    /\ used' = used + 1
    /\ UNCHANGED <<storage, store, route, profile, files, imageStatus,
                   errors, isFormValid, isSaving, savePc, saveJob,
                   notification, hideTimers, navTimers, previewUrl, boxError,
                   errorTimers, liveUrls, nextUrl, now,
                   showPreview, previewData,
                   orphans, staleHideTimers>>

(***************************************************************************)
(* Upload boxes (FileUploadBox) and handleFileChange                       *)
(***************************************************************************)
\* Mutant: setFiles is skipped when the image is removed.
handleFileChange_keepFile(id, file) ==
    /\ files' = IF file # NoFile THEN [files EXCEPT ![id] = file] ELSE files
    /\ imageStatus' = [imageStatus EXCEPT ![id] = IF file # NoFile THEN "new" ELSE "removed"]
    /\ effectPending' = TRUE

\* Mutant: removing an image puts the slot back to initial.
handleFileChange_removeToInitial(id, file) ==
    /\ files' = [files EXCEPT ![id] = file]
    /\ imageStatus' = [imageStatus EXCEPT ![id] = IF file # NoFile THEN "new" ELSE "initial"]
    /\ effectPending' = TRUE

\* Mutant: the status is set without a new imageStatus object, so that the
\* validation effect does not run.
handleFileChange_noRevalidate(id, file) ==
    /\ files' = [files EXCEPT ![id] = file]
    /\ imageStatus' = [imageStatus EXCEPT ![id] = IF file # NoFile THEN "new" ELSE "removed"]
    /\ UNCHANGED effectPending

\* handleFileChange of the page: the onFileChange of both boxes.
handleFileChange(id, file) ==
    /\ files' = [files EXCEPT ![id] = file]
    /\ imageStatus' = [imageStatus EXCEPT ![id] = IF file # NoFile THEN "new" ELSE "removed"]
    /\ effectPending' = TRUE

\* Mutant: the size check uses >=.
Rejected_sizeInclusive(f) ==
    \/ FileSize(f) >= MaxFileBytes
    \/ FileType(f) \notin allowedTypes

\* The checks of handleFile that end in triggerError.
Rejected(f) ==
    \/ FileSize(f) > MaxFileBytes
    \/ FileType(f) \notin allowedTypes

\* handleFile of box id, reached from the file dialog (Browse, Change) or a drop.
handleFile(id, selectedFile) ==
    /\ Ready
    /\ used < MaxOps
    /\ used' = used + 1
    /\ alert' = "none"
    /\ IF Rejected(selectedFile)
       THEN \* triggerError
            /\ boxError' = [boxError EXCEPT ![id] = TRUE]
            /\ errorTimers' = [errorTimers EXCEPT ![id] = @ + 1]
            /\ UNCHANGED <<previewUrl, liveUrls, nextUrl, files, imageStatus,
                           effectPending>>
       ELSE /\ previewUrl' = [previewUrl EXCEPT ![id] = createObjectURL(selectedFile, nextUrl)]
            /\ liveUrls' = liveUrls \cup {createObjectURL(selectedFile, nextUrl)}
            /\ nextUrl' = nextUrl + 1
            /\ handleFileChange(id, selectedFile)
            /\ UNCHANGED <<boxError, errorTimers>>
    /\ UNCHANGED <<storage, store, route, profile, portfolioItems, errors,
                   isFormValid, isSaving, savePc, saveJob, notification,
                   hideTimers, navTimers, now,
                   showPreview, previewData,
                   orphans, staleHideTimers>>

\* removeImage of box id: the Remove button, rendered while previewUrl is set.
removeImage(id) ==
    /\ Ready
    /\ Truthy(previewUrl[id])
    /\ used < MaxOps
    /\ used' = used + 1
    /\ alert' = "none"
    /\ liveUrls' = IF IsBlob(previewUrl[id]) THEN liveUrls \ {previewUrl[id]} ELSE liveUrls
    /\ previewUrl' = [previewUrl EXCEPT ![id] = Null]
    /\ handleFileChange(id, NoFile)
    /\ UNCHANGED <<storage, store, route, profile, portfolioItems, errors,
                   isFormValid, isSaving, savePc, saveJob, notification,
                   hideTimers, navTimers, boxError, errorTimers, nextUrl, now,
                   showPreview, previewData,
                   orphans, staleHideTimers>>

\* The 3000 ms timer of triggerError fires.
hideBoxError(id) ==
    /\ route = "edit"
    /\ ~effectPending
    /\ errorTimers[id] > 0
    /\ errorTimers' = [errorTimers EXCEPT ![id] = @ - 1]
    /\ boxError' = [boxError EXCEPT ![id] = FALSE]
    /\ UNCHANGED <<storage, store, route, profile, portfolioItems, files,
                   imageStatus, errors, isFormValid, effectPending, isSaving,
                   savePc, saveJob, notification, hideTimers, navTimers,
                   previewUrl, liveUrls, nextUrl, now, alert, used,
                   showPreview, previewData,
                   orphans, staleHideTimers>>

(***************************************************************************)
(* Preview                                                                 *)
(***************************************************************************)
\* Which slots handlePreview creates an object URL for.
PreviewsFile(id) == imageStatus[id] = "new" /\ files[id] # NoFile

\* The number the object URL of slot id gets in handlePreview: the background
\* URL is created first.
PreviewUrlNumber(id) ==
    IF id = "profile" /\ PreviewsFile("background") THEN nextUrl + 1 ELSE nextUrl

\* Mutant: the preview takes every image from the store.
PreviewImage_fromStore(id) ==
    IF imageStatus[id] = "removed" THEN Null ELSE store.images[id]

\* backgroundUrl / profileUrl of handlePreview
PreviewImage(id) ==
    IF PreviewsFile(id) THEN createObjectURL(files[id], PreviewUrlNumber(id))
    ELSE IF imageStatus[id] = "initial" THEN store.images[id]
    ELSE Null

\* The Preview button of the header (disabled={isSaving}).
handlePreview ==
    /\ Ready
    /\ ~isSaving
    /\ used < MaxOps
    /\ used' = used + 1
    /\ previewData' = <<[profile |-> profile, portfolios |-> portfolioItems,
                         images |-> [id \in Slots |-> PreviewImage(id)]]>>
    /\ showPreview' = TRUE
    /\ liveUrls' = liveUrls \cup {PreviewImage(id) : id \in {x \in Slots : PreviewsFile(x)}}
    /\ nextUrl' = nextUrl + Cardinality({x \in Slots : PreviewsFile(x)})
    /\ alert' = "none"
    /\ UNCHANGED <<storage, store, route, profile, portfolioItems, files,
                   imageStatus, errors, isFormValid, effectPending, isSaving,
                   savePc, saveJob, notification, hideTimers, navTimers,
                   previewUrl, boxError, errorTimers, now,
                   orphans, staleHideTimers>>

\* onClose of the preview modal (its Close button or the Escape key).
closePreview ==
    /\ route = "edit"
    /\ ~effectPending
    /\ showPreview
    /\ showPreview' = FALSE
    /\ UNCHANGED <<storage, store, route, profile, portfolioItems, files,
                   imageStatus, errors, isFormValid, effectPending, isSaving,
                   savePc, saveJob, notification, previewData, hideTimers,
                   navTimers, previewUrl, boxError, errorTimers, liveUrls,
                   nextUrl, now, alert, used, orphans, staleHideTimers>>

(***************************************************************************)
(* saveChanges                                                             *)
(***************************************************************************)
AwaitOrder == <<"compressBackground", "compressProfile", "encodeBackground", "encodeProfile">>

\* Whether saveChanges, running for job, suspends at the await named pc.
Awaits(job, pc) ==
    CASE pc = "compressBackground" -> job.files["background"] # NoFile
      [] pc = "compressProfile" -> job.files["profile"] # NoFile
      [] pc = "encodeBackground" -> job.files["background"] # NoFile
      [] pc = "encodeProfile" -> job.files["profile"] # NoFile
      [] OTHER -> FALSE

\* The await that follows position k of AwaitOrder, "write" when none is left.
RECURSIVE AwaitAfter(_, _)
AwaitAfter(job, k) ==
    IF k >= Len(AwaitOrder) THEN "write"
    ELSE IF Awaits(job, AwaitOrder[k + 1]) THEN AwaitOrder[k + 1]
    ELSE AwaitAfter(job, k + 1)

PcIndex(pc) == CHOOSE k \in 1..Len(AwaitOrder) : AwaitOrder[k] = pc

\* Mutant: the pending file is encoded without imageCompression.
ImageToSave_uncompressed(job, id) ==
    IF job.files[id] # NoFile
    THEN fileToDataUrl(job.files[id])
    ELSE IF job.imageStatus[id] = "initial" THEN job.images[id] ELSE Null

\* Mutant: a carried-over image is read again as a data URL.
ImageToSave_reencodeInitial(job, id) ==
    IF job.files[id] # NoFile
    THEN fileToDataUrl(imageCompression(job.files[id]))
    ELSE IF job.imageStatus[id] = "initial" THEN fileToDataUrl(job.images[id]) ELSE Null

\* Mutant: a slot without a pending file is saved as null, initial or not.
ImageToSave_dropsInitial(job, id) ==
    IF job.files[id] # NoFile
    THEN fileToDataUrl(imageCompression(job.files[id]))
    ELSE Null

\* backgroundToSave / profileToSave
ImageToSave(job, id) ==
    IF job.files[id] # NoFile
    THEN fileToDataUrl(imageCompression(job.files[id]))
    ELSE IF job.imageStatus[id] = "initial" THEN job.images[id] ELSE Null

\* The argument of store.setPortfolioData
RecordToSave(job) ==
    [profile |-> job.profile,
     portfolios |-> job.portfolios,
     images |-> [id \in Slots |-> ImageToSave(job, id)]]

\* The useEffect of each box on [initialImageUrl], after the store changed.
PreviewAfterStore(old, new) ==
    [id \in Slots |->
        IF new.images[id] # old.images[id]
        THEN (IF Truthy(new.images[id]) THEN new.images[id] ELSE Null)
        ELSE previewUrl[id]]

\* Mutant: the store write reads profile and portfolioItems of the latest
\* render instead of those of the closure.
WriteAndFinish_latestDraft(job, written) ==
    /\ store' = setPortfolioData(store,
                    RecordToSave([job EXCEPT !.profile = profile,
                                             !.portfolios = portfolioItems]))
    /\ previewUrl' = PreviewAfterStore(store, store')
    /\ IF written
       THEN /\ storage' = <<store'>>
            /\ notification' = TRUE
            /\ hideTimers' = hideTimers + 1
            /\ alert' = "none"
       ELSE /\ alert' = "Could not save changes. Please try again."
            /\ UNCHANGED <<storage, notification, hideTimers>>
    /\ isSaving' = FALSE
    /\ savePc' = "idle"
    /\ saveJob' = NoJob

\* From store.setPortfolioData to the end of saveChanges.  The store state is
\* replaced first and persist() then writes it to localStorage; written says
\* whether localStorage.setItem succeeds (it throws when the quota is
\* exceeded, and the exception reaches the catch block).
WriteAndFinish(job, written) ==
    /\ store' = setPortfolioData(store, RecordToSave(job))
    /\ previewUrl' = PreviewAfterStore(store, store')
    /\ IF written
       THEN /\ storage' = <<store'>>
            /\ notification' = TRUE
            /\ hideTimers' = hideTimers + 1
            /\ alert' = "none"
       ELSE /\ alert' = "Could not save changes. Please try again."
            /\ UNCHANGED <<storage, notification, hideTimers>>
    /\ isSaving' = FALSE
    /\ savePc' = "idle"
    /\ saveJob' = NoJob

\* The draft and the store as the closure of saveChanges holds them.
CurrentJob ==
    [profile |-> profile, portfolios |-> portfolioItems, files |-> files,
     imageStatus |-> imageStatus, images |-> store.images]

\* Mutant: setIsSaving(true) runs before the validity check.
saveChangesInvalid_savingFirst ==
    /\ Ready
    /\ used < MaxOps
    /\ used' = used + 1
    /\ ~isFormValid
    /\ isSaving' = TRUE
    /\ alert' = "Please complete all required fields and upload both images."
    /\ UNCHANGED <<storage, store, route, profile, portfolioItems, files,
                   imageStatus, errors, isFormValid, effectPending,
                   savePc, saveJob, notification, hideTimers, navTimers,
                   previewUrl, boxError, errorTimers, liveUrls, nextUrl, now,
                   showPreview, previewData,
                   orphans, staleHideTimers>>

\* saveChanges is called while isFormValid is false.  Both save buttons are
\* disabled then; this is the handler's own check.
saveChangesInvalid ==
    /\ Ready
    /\ used < MaxOps
    /\ used' = used + 1
    /\ ~isFormValid
    /\ alert' = "Please complete all required fields and upload both images."
    /\ UNCHANGED <<storage, store, route, profile, portfolioItems, files,
                   imageStatus, errors, isFormValid, effectPending, isSaving,
                   savePc, saveJob, notification, hideTimers, navTimers,
                   previewUrl, boxError, errorTimers, liveUrls, nextUrl, now,
                   showPreview, previewData,
                   orphans, staleHideTimers>>

\* A click on a save button (disabled={!isFormValid || isSaving}): saveChanges
\* runs to its first await, or to its end when it awaits nothing.
saveChanges(written) ==
    /\ Ready
    /\ ~(~isFormValid \/ isSaving)
    /\ isFormValid
    /\ used < MaxOps
    /\ used' = used + 1
    /\ IF AwaitAfter(CurrentJob, 0) = "write"
       THEN WriteAndFinish(CurrentJob, written)
       ELSE /\ written
            /\ isSaving' = TRUE
            /\ savePc' = AwaitAfter(CurrentJob, 0)
            /\ saveJob' = CurrentJob
            /\ alert' = "none"
            /\ UNCHANGED <<storage, store, previewUrl, notification, hideTimers>>
    /\ UNCHANGED <<route, profile, portfolioItems, files, imageStatus, errors,
                   isFormValid, effectPending, navTimers, boxError,
                   errorTimers, liveUrls, nextUrl, now,
                   showPreview, previewData,
                   orphans, staleHideTimers>>

\* The promise saveChanges awaits is fulfilled: it runs to its next await or
\* to its end.
awaitFulfilled(written) ==
    /\ savePc # "idle"
    /\ ~effectPending
    /\ IF AwaitAfter(saveJob, PcIndex(savePc)) = "write"
       THEN WriteAndFinish(saveJob, written)
       ELSE /\ written
            /\ savePc' = AwaitAfter(saveJob, PcIndex(savePc))
            /\ alert' = "none"
            /\ UNCHANGED <<storage, store, previewUrl, notification,
                           hideTimers, isSaving, saveJob>>
    /\ UNCHANGED <<route, profile, portfolioItems, files, imageStatus, errors,
                   isFormValid, effectPending, navTimers, boxError,
                   errorTimers, liveUrls, nextUrl, now, used,
                   showPreview, previewData,
                   orphans, staleHideTimers>>

\* Mutant: the catch block swallows the error without the alert.
awaitRejected_silent ==
    /\ savePc # "idle"
    /\ ~effectPending
    /\ alert' = "none"
    /\ isSaving' = FALSE
    /\ savePc' = "idle"
    /\ saveJob' = NoJob
    /\ UNCHANGED <<storage, store, route, profile, portfolioItems, files,
                   imageStatus, errors, isFormValid, effectPending,
                   notification, hideTimers, navTimers, previewUrl, boxError,
                   errorTimers, liveUrls, nextUrl, now, used,
                   showPreview, previewData,
                   orphans, staleHideTimers>>

\* Mutant: the catch block also drops the pending files.
awaitRejected_dropsFiles ==
    /\ savePc # "idle"
    /\ ~effectPending
    /\ alert' = "Could not save changes. Please try again."
    /\ isSaving' = FALSE
    /\ savePc' = "idle"
    /\ saveJob' = NoJob
    /\ files' = [s \in Slots |-> NoFile]
    /\ UNCHANGED <<storage, store, route, profile, portfolioItems,
                   imageStatus, errors, isFormValid, effectPending,
                   notification, hideTimers, navTimers, previewUrl, boxError,
                   errorTimers, liveUrls, nextUrl, now, used,
                   showPreview, previewData, orphans, staleHideTimers>>

\* The promise saveChanges awaits is rejected (imageCompression or the
\* FileReader fails): catch, then finally.
awaitRejected ==
    /\ savePc # "idle"
    /\ ~effectPending
    /\ alert' = "Could not save changes. Please try again."
    /\ isSaving' = FALSE
    /\ savePc' = "idle"
    /\ saveJob' = NoJob
    /\ UNCHANGED <<storage, store, route, profile, portfolioItems, files,
                   imageStatus, errors, isFormValid, effectPending,
                   notification, hideTimers, navTimers, previewUrl, boxError,
                   errorTimers, liveUrls, nextUrl, now, used,
                   showPreview, previewData,
                   orphans, staleHideTimers>>

(***************************************************************************)
(* Timers of a successful save, navigation                                 *)
(***************************************************************************)
\* The 2000 ms timer: hide the notification, start the 500 ms timer.
hideNotification ==
    /\ hideTimers > 0
    /\ ~effectPending
    /\ hideTimers' = hideTimers - 1
    /\ notification' = FALSE
    /\ navTimers' = navTimers + 1
    /\ UNCHANGED <<storage, store, route, profile, portfolioItems, files,
                   imageStatus, errors, isFormValid, effectPending, isSaving,
                   savePc, saveJob, previewUrl, boxError, errorTimers,
                   liveUrls, nextUrl, now, alert, used,
                   showPreview, previewData,
                   orphans, staleHideTimers>>

\* The edit page unmounts.  Its state is discarded (the model gives it the
\* values of an empty page); a saveChanges call it had suspended keeps
\* running, and so do its timers: they act on the unmounted page (setState is
\* then a no-op) and on the store and the router, which outlive it.
Unmount ==
    /\ route' = "home"
    /\ orphans' = IF savePc = "idle" THEN orphans
                  ELSE Append(orphans, [pc |-> savePc, job |-> saveJob])
    /\ staleHideTimers' = staleHideTimers + hideTimers
    /\ hideTimers' = 0
    /\ savePc' = "idle"
    /\ saveJob' = NoJob
    /\ errorTimers' = [s \in Slots |-> 0]
    /\ profile' = NoJob.profile
    /\ portfolioItems' = <<>>
    /\ files' = [s \in Slots |-> NoFile]
    /\ imageStatus' = [s \in Slots |-> "removed"]
    /\ errors' = {}
    /\ isFormValid' = FALSE
    /\ effectPending' = FALSE
    /\ isSaving' = FALSE
    /\ notification' = FALSE
    /\ showPreview' = FALSE
    /\ previewData' = <<>>
    /\ previewUrl' = [s \in Slots |-> Null]
    /\ boxError' = [s \in Slots |-> FALSE]

\* The 500 ms timer: router.push("/").
navigateHome ==
    /\ navTimers > 0
    /\ ~effectPending
    /\ navTimers' = navTimers - 1
    /\ IF route = "edit"
       THEN Unmount
       ELSE UNCHANGED <<route, orphans, staleHideTimers, hideTimers, savePc,
                        saveJob, errorTimers, profile, portfolioItems, files,
                        imageStatus, errors, isFormValid, effectPending,
                        isSaving, notification, showPreview, previewData,
                        previewUrl, boxError>>
    /\ UNCHANGED <<storage, store, liveUrls, nextUrl, now, alert, used>>

\* The "Portfolio Builder" link of the edit header (href="/"), never disabled.
leavePage ==
    /\ Ready
    /\ Unmount
    /\ UNCHANGED <<storage, store, navTimers, liveUrls, nextUrl, now, alert,
                   used>>

\* The 2000 ms timer of a page since unmounted: setNotification does nothing,
\* the 500 ms timer is started.
staleHideNotification ==
    /\ staleHideTimers > 0
    /\ ~effectPending
    /\ staleHideTimers' = staleHideTimers - 1
    /\ navTimers' = navTimers + 1
    /\ UNCHANGED <<storage, store, route, profile, portfolioItems, files,
                   imageStatus, errors, isFormValid, effectPending, isSaving,
                   savePc, saveJob, notification, hideTimers, previewUrl,
                   boxError, errorTimers, liveUrls, nextUrl, now, alert, used,
                   showPreview, previewData, orphans>>

RemoveAt(seq, i) == SubSeq(seq, 1, i - 1) \o SubSeq(seq, i + 1, Len(seq))

\* The promise awaited by saveChanges call i of an unmounted page is
\* fulfilled.  setIsSaving and setNotification do nothing; the store is written
\* and the timers are started as for a mounted page.
orphanFulfilled(i, written) ==
    /\ i \in 1..Len(orphans)
    /\ ~effectPending
    /\ IF AwaitAfter(orphans[i].job, PcIndex(orphans[i].pc)) = "write"
       THEN /\ store' = setPortfolioData(store, RecordToSave(orphans[i].job))
            /\ previewUrl' = IF route = "edit" THEN PreviewAfterStore(store, store')
                             ELSE previewUrl
            /\ orphans' = RemoveAt(orphans, i)
            /\ IF written
               THEN /\ storage' = <<store'>>
                    /\ staleHideTimers' = staleHideTimers + 1
                    /\ alert' = "none"
               ELSE /\ alert' = "Could not save changes. Please try again."
                    /\ UNCHANGED <<storage, staleHideTimers>>
       ELSE /\ written
            /\ orphans' = [orphans EXCEPT ![i].pc =
                              AwaitAfter(orphans[i].job, PcIndex(orphans[i].pc))]
            /\ alert' = "none"
            /\ UNCHANGED <<storage, store, previewUrl, staleHideTimers>>
    /\ UNCHANGED <<route, profile, portfolioItems, files, imageStatus, errors,
                   isFormValid, effectPending, isSaving, savePc, saveJob,
                   notification, hideTimers, navTimers, boxError, errorTimers,
                   liveUrls, nextUrl, now, used, showPreview, previewData>>

\* The promise awaited by saveChanges call i of an unmounted page is rejected.
orphanRejected(i) ==
    /\ i \in 1..Len(orphans)
    /\ ~effectPending
    /\ alert' = "Could not save changes. Please try again."
    /\ orphans' = RemoveAt(orphans, i)
    /\ UNCHANGED <<storage, store, route, profile, portfolioItems, files,
                   imageStatus, errors, isFormValid, effectPending, isSaving,
                   savePc, saveJob, notification, hideTimers, navTimers,
                   previewUrl, boxError, errorTimers, liveUrls, nextUrl, now,
                   used, showPreview, previewData, staleHideTimers>>

\* The user opens /edit from the home page (the Edit links of Header and
\* PortfolioSection): a new page mounts on the current store.
openEditor ==
    /\ route = "home"
    /\ route' = "edit"
    /\ profile' = store.profile
    /\ portfolioItems' = store.portfolios
    /\ files' = [s \in Slots |-> NoFile]
    /\ imageStatus' = InitialStatus(store)
    /\ errors' = {}
    /\ isFormValid' = FALSE
    /\ effectPending' = TRUE
    /\ isSaving' = FALSE
    /\ notification' = FALSE
    /\ showPreview' = FALSE
    /\ previewData' = <<>>
    /\ previewUrl' = InitialPreview(store)
    /\ boxError' = [s \in Slots |-> FALSE]
    /\ alert' = "none"
    /\ UNCHANGED <<storage, store, savePc, saveJob, hideTimers, navTimers,
                   errorTimers, liveUrls, nextUrl, now, used, orphans,
                   staleHideTimers>>

\* The entries whose Remove button is used, the first and the last one, and
\* the entry whose fields the user edits, the last one.  The forms only ever
\* pass the id of a rendered entry; Next also calls handlePortfolioChange and
\* removePortfolioItem with AbsentId, the handlers' branch for an id that
\* matches nothing.
Edited(items) == {i \in 1..Len(items) : i = Len(items)}
Picked(items) == {i \in 1..Len(items) : i = 1 \/ i = Len(items)}

Next ==
    \/ validateForm
    \/ \E name \in ProfileFields, value \in TextInput : handleProfileChange(name, value)
    \/ \E i \in Edited(portfolioItems), name \in TextItemFields, value \in TextInput :
          handlePortfolioChange(portfolioItems[i].id, name, value)
    \/ \E i \in Edited(portfolioItems), name \in DateItemFields, value \in DateInput :
          handlePortfolioChange(portfolioItems[i].id, name, value)
    \/ \E name \in TextItemFields, value \in TextInput :
          handlePortfolioChange(AbsentId, name, value)
    \/ \E t \in now..(now + 1) : t <= ClockStart + MaxClockSteps /\ addPortfolioItem(t)
    \/ \E i \in Picked(portfolioItems) : removePortfolioItem(portfolioItems[i].id)
    \/ removePortfolioItem(AbsentId)
    \/ \E id \in Slots, name \in FileName : handleFile(id, RawFile(name))
    \/ \E id \in Slots : removeImage(id)
    \/ \E id \in Slots : hideBoxError(id)
    \/ handlePreview
    \/ closePreview
    \/ saveChangesInvalid
    \/ \E written \in BOOLEAN : saveChanges(written)
    \/ \E written \in BOOLEAN : awaitFulfilled(written)
    \/ awaitRejected
    \/ hideNotification
    \/ navigateHome
    \/ leavePage
    \/ staleHideNotification
    \/ \E i \in 1..Len(orphans), written \in BOOLEAN : orphanFulfilled(i, written)
    \/ \E i \in 1..Len(orphans) : orphanRejected(i)
    \/ openEditor

Spec == Init /\ [][Next]_vars

(***************************************************************************)
(* The store action on its own: setPortfolioData takes a                   *)
(* Partial<PortfolioState>, while saveChanges only ever passes all three   *)
(* keys.  MergeSpec calls the action of a store no edit page is mounted on *)
(* with every subset of the keys.                                          *)
(***************************************************************************)
StoreKeys == {"profile", "portfolios", "images"}

\* Values a caller can pass for each key.
ProfileValues ==
    {placeholderData.profile, EarlierRecord.profile,
     [name |-> "x", title |-> " ", description |-> ""],
     [name |-> "Bob", title |-> "Ops", description |-> "Bio"]}

PortfoliosValues == {<<>>, placeholderData.portfolios, FullRecord.portfolios}

ImagesValues ==
    {placeholderData.images, EarlierRecord.images,
     [background |-> EarlierRecord.images["background"], profile |-> Null],
     [background |-> fileToDataUrl(imageCompression(RawFile("a.png"))),
      profile |-> fileToDataUrl(imageCompression(RawFile("b.jpg")))]}

\* Partial<PortfolioState>: a record with some of the three keys.
PartialData ==
    {[k \in K |-> [profile |-> p, portfolios |-> q, images |-> im][k]] :
        p \in ProfileValues, q \in PortfoliosValues, im \in ImagesValues,
        K \in SUBSET StoreKeys}

MergeInit ==
    /\ storage \in InitialStorage
    /\ store = Hydrate(storage)
    /\ route = "home"
    /\ profile = NoJob.profile
    /\ portfolioItems = <<>>
    /\ files = [s \in Slots |-> NoFile]
    /\ imageStatus = [s \in Slots |-> "removed"]
    /\ errors = {}
    /\ isFormValid = FALSE
    /\ effectPending = FALSE
    /\ isSaving = FALSE
    /\ savePc = "idle"
    /\ saveJob = NoJob
    /\ notification = FALSE
    /\ showPreview = FALSE
    /\ previewData = <<>>
    /\ hideTimers = 0
    /\ navTimers = 0
    /\ previewUrl = [s \in Slots |-> Null]
    /\ boxError = [s \in Slots |-> FALSE]
    /\ errorTimers = [s \in Slots |-> 0]
    /\ liveUrls = {}
    /\ nextUrl = 0
    /\ now = ClockStart
    /\ alert = "none"
    /\ used = 0
    /\ orphans = <<>>
    /\ staleHideTimers = 0

\* usePortfolioStore.getState().setPortfolioData(data): set() replaces the
\* state and persist() writes the whole new state to localStorage.
callSetPortfolioData(data) ==
    /\ used < MaxOps
    /\ used' = used + 1
    /\ store' = setPortfolioData(store, data)
    /\ storage' = <<store'>>
    /\ UNCHANGED <<route, profile, portfolioItems, files, imageStatus, errors,
                   isFormValid, effectPending, isSaving, savePc, saveJob,
                   notification, showPreview, previewData, hideTimers,
                   navTimers, previewUrl, boxError, errorTimers, liveUrls,
                   nextUrl, now, alert, orphans, staleHideTimers>>

MergeNext == \E data \in PartialData : callSetPortfolioData(data)

MergeSpec == MergeInit /\ [][MergeNext]_vars

(***************************************************************************)
(* Properties                                                              *)
(***************************************************************************)
\* A required text is non-blank when it is not made of white space only.
NonBlank(text) == text \notin {"", " "}

AllRequiredFilled ==
    /\ \A f \in ProfileFields : NonBlank(profile[f])
    /\ \A i \in 1..Len(portfolioItems) :
          \A f \in {"position", "company", "startDate", "endDate", "description"} :
             NonBlank(portfolioItems[i][f])

NoSlotRemoved == \A id \in Slots : imageStatus[id] # "removed"

\* C1: once validation has run for the current draft, isFormValid is true
\* exactly when the three profile fields and the five fields of every entry
\* are non-blank and neither image slot is in status removed.
C1_ValidIffComplete ==
    (route = "edit" /\ ~effectPending)
        => (isFormValid <=> (AllRequiredFilled /\ NoSlotRemoved))

\* A validated, valid draft reached by editing: both images were supplied.
C1_Witness ==
    /\ route = "edit" /\ ~effectPending /\ isFormValid /\ used > 0
    /\ Len(portfolioItems) > 0
    /\ imageStatus["background"] = "new" /\ imageStatus["profile"] = "new"

\* C2: every record in localStorage, whatever was edited while the save that
\* wrote it was in flight, has an image for the background and the profile slot.
C2_SavedImagesPresent ==
    storage # NoRecord => \A id \in Slots : storage[1].images[id] # Null

\* A save wrote the picture selected before it started although the slot was
\* removed from the draft while the save was in flight.
C2_Witness ==
    /\ route = "edit" /\ savePc = "idle"
    /\ imageStatus["background"] = "removed"
    /\ storage # NoRecord
    /\ storage[1].images["background"] = fileToDataUrl(imageCompression(RawFile("a.png")))

InvalidAlert == "Please complete all required fields and upload both images."
FailedAlert == "Could not save changes. Please try again."

\* C3: a call of saveChanges while isFormValid is false raises the validation
\* alert and changes neither localStorage, the store, the draft nor isSaving;
\* no step taken from an invalid, validated draft starts a save of the page
\* or ends one with a write.
C3_InvalidSaveChangesNothing ==
    [][ /\ (alert' = InvalidAlert /\ used' = used + 1)
            => UNCHANGED <<storage, store, profile, portfolioItems,
                           imageStatus, files, isSaving, savePc, orphans>>
        /\ (Ready /\ ~isFormValid /\ savePc = "idle")
            => (savePc' = "idle" /\ isSaving' = isSaving /\ hideTimers' <= hideTimers)
      ]_vars

\* The validation alert is up over an invalid draft.
C3_Witness ==
    /\ alert = InvalidAlert /\ ~isFormValid /\ route = "edit"
    /\ imageStatus["background"] = "removed"

ActiveJob == IF savePc = "idle" THEN CurrentJob ELSE saveJob

\* This step ends a saveChanges call of the mounted page, or of an unmounted
\* one, with a successful write.
PageSaveSucceeds == hideTimers' = hideTimers + 1
OrphanSaveSucceeds ==
    Len(orphans') < Len(orphans) /\ staleHideTimers' = staleHideTimers + 1

\* C5: localStorage changes only in the step that ends a successful save, and
\* that step replaces the whole record: profile, portfolios and images of the
\* same invocation of saveChanges, in one write.
C5_OnlySaveWrites ==
    [][ /\ (storage' # storage)
            => /\ alert' = "none"
               /\ storage' = <<store'>>
               /\ DOMAIN storage'[1] = {"profile", "portfolios", "images"}
               /\ \/ /\ PageSaveSucceeds
                     /\ notification'
                     /\ storage'[1].profile = ActiveJob.profile
                     /\ storage'[1].portfolios = ActiveJob.portfolios
                  \/ /\ OrphanSaveSucceeds
                     /\ \E i \in 1..Len(orphans) :
                           /\ orphans' = RemoveAt(orphans, i)
                           /\ storage'[1].profile = orphans[i].job.profile
                           /\ storage'[1].portfolios = orphans[i].job.portfolios
        /\ (PageSaveSucceeds \/ OrphanSaveSucceeds) => (storage' = <<store'>>)
      ]_vars

\* A save wrote a new record; the profile of the draft was edited around it
\* and differs from the stored one.
C5_Witness ==
    /\ storage # NoRecord /\ storage # <<EarlierRecord>> /\ storage # <<FullRecord>>
    /\ route = "edit"
    /\ profile # storage[1].profile

\* C6: in either upload box and from every status, an accepted file makes the
\* slot new with that file as its pending file, Remove makes it removed with no
\* pending file, and within a session nothing else changes a slot's status.
C6_ImageTransitions ==
    [][ \A id \in Slots :
          LET accepted == /\ route' = "edit"
                          /\ nextUrl' = nextUrl + 1
                          /\ previewUrl'[id] # previewUrl[id]
                          /\ IsBlob(previewUrl'[id])
              removed == route' = "edit" /\ Truthy(previewUrl[id]) /\ previewUrl'[id] = Null
          IN  /\ accepted => /\ imageStatus'[id] = "new"
                              /\ files'[id] = RawFile(previewUrl'[id].src)
              /\ removed => /\ imageStatus'[id] = "removed"
                             /\ files'[id] = NoFile
              /\ (route = "edit" /\ route' = "edit"
                    /\ (imageStatus'[id] # imageStatus[id] \/ files'[id] # files[id]))
                    => (accepted \/ removed)
      ]_vars

\* The background slot went initial -> new -> new (b.jpg replaced a.png) and
\* the profile slot initial -> removed.
C6_Witness ==
    /\ route = "edit"
    /\ imageStatus["background"] = "new" /\ files["background"] = RawFile("b.jpg")
    /\ createObjectURL(RawFile("a.png"), 0) \in liveUrls
    /\ Truthy(store.images["profile"])
    /\ imageStatus["profile"] = "removed" /\ files["profile"] = NoFile

\* C7: while the edit page stays mounted, a slot that is new or removed never
\* becomes initial again, whatever runs, a successful save included.
C7_NeverBackToInitial ==
    [][ \A id \in Slots :
          (route = "edit" /\ route' = "edit" /\ imageStatus[id] # "initial")
             => imageStatus'[id] # "initial"
      ]_vars

\* After a successful save of a new background the slot is still new.
C7_Witness ==
    /\ route = "edit" /\ notification /\ savePc = "idle"
    /\ imageStatus["background"] = "new"
    /\ storage # NoRecord
    /\ storage[1].images["background"] = fileToDataUrl(imageCompression(files["background"]))

\* C8: a selected file of more than 3 MiB, or of a type outside the allowed
\* list, leaves status, pending file and preview of the slot as they were and
\* shows the box's error, which a pending timer will hide; any other file is
\* accepted.
C8_RejectedFileChangesNothing ==
    [][ \A id \in Slots :
          /\ \A name \in FileName :
                handleFile(id, RawFile(name)) =>
                   IF \/ FileSize(RawFile(name)) > 3 * 1024 * 1024
                      \/ FileType(RawFile(name)) \notin {"image/png", "image/jpeg", "image/jpg"}
                   THEN /\ UNCHANGED <<imageStatus, files, previewUrl>>
                        /\ boxError'[id]
                   ELSE /\ imageStatus'[id] = "new"
                        /\ files'[id] = RawFile(name)
                        /\ IsBlob(previewUrl'[id]) /\ previewUrl'[id].src = name
                        /\ boxError'[id] = boxError[id]
          /\ (route' = "edit" /\ boxError'[id]) => errorTimers'[id] > 0
      ]_vars

\* The 3 MiB file b.jpg was accepted, and a later rejected file left it the
\* pending file of the slot.
C8_Witness ==
    /\ route = "edit" /\ boxError["background"]
    /\ imageStatus["background"] = "new" /\ files["background"] = RawFile("b.jpg")
    /\ IsBlob(previewUrl["background"]) /\ previewUrl["background"].src = "b.jpg"

CapacityAlert == "Maximum 10 portfolio entries allowed"

\* C9: the draft never holds more than 10 entries; addPortfolioItem at 10
\* entries raises the warning and leaves the list as it is, below 10 it
\* appends exactly one entry with five blank fields; nothing else makes the
\* list of a mounted page longer.
C9_EntryCap ==
    /\ [](Len(portfolioItems) <= 10)
    /\ [][ /\ \A t \in ClockStart..(ClockStart + MaxClockSteps) :
                addPortfolioItem(t) =>
                   IF Len(portfolioItems) = 10
                   THEN alert' = CapacityAlert /\ portfolioItems' = portfolioItems
                   ELSE /\ Len(portfolioItems') = Len(portfolioItems) + 1
                        /\ SubSeq(portfolioItems', 1, Len(portfolioItems)) = portfolioItems
                        /\ \A f \in {"position", "company", "startDate", "endDate", "description"} :
                              portfolioItems'[Len(portfolioItems')][f] = ""
                        /\ alert' = "none"
            /\ (route = "edit" /\ Len(portfolioItems') > Len(portfolioItems))
                  => Len(portfolioItems') = Len(portfolioItems) + 1
          ]_vars

\* The warning is up over a draft of 10 entries, the last one blank.
C9_Witness ==
    /\ route = "edit" /\ alert = CapacityAlert
    /\ Len(portfolioItems) = 10
    /\ portfolioItems[10].position = ""

\* The record storage holds resolves the images of job by their status.
ResolvedFrom(job, record) ==
    \A id \in Slots :
       /\ job.imageStatus[id] = "new"
             => /\ record.images[id] =
                      [tag |-> "data-compressed", src |-> job.files[id].src, n |-> 0]
                /\ job.files[id].tag = "file"
       /\ job.imageStatus[id] = "initial"
             => record.images[id] = job.images[id]

\* C10: the step that ends a successful save writes, for a slot that was new
\* when saveChanges was called, the data URL of the compressed pending file,
\* and for a slot that was initial the very value the store held for it when
\* saveChanges was called.
C10_ImagesResolvedByStatus ==
    [][ /\ PageSaveSucceeds => ResolvedFrom(ActiveJob, storage'[1])
        /\ (savePc = "idle" /\ PageSaveSucceeds)
              => \A id \in Slots : imageStatus[id] = "initial"
                                      => storage'[1].images[id] = store.images[id]
        /\ OrphanSaveSucceeds
              => \E i \in 1..Len(orphans) :
                    orphans' = RemoveAt(orphans, i) /\ ResolvedFrom(orphans[i].job, storage'[1])
      ]_vars

\* A saved record with a newly encoded background and the carried-over
\* profile image of the earlier record.
C10_Witness ==
    /\ storage # NoRecord
    /\ storage[1].images["background"] = [tag |-> "data-compressed", src |-> "a.png", n |-> 0]
    /\ storage[1].images["profile"] = EarlierRecord.images["profile"]
    /\ hideTimers > 0

\* The draft of the mounted page is the record of the store, untouched: both
\* slots initial, no pending file.
Unedited ==
    /\ route = "edit"
    /\ profile = store.profile
    /\ portfolioItems = store.portfolios
    /\ \A id \in Slots : imageStatus[id] = "initial" /\ files[id] = NoFile

\* C11: a successful save of a draft that equals the record it was opened
\* from, both slots initial, writes a record with the same profile, the same
\* entries in the same order and the same two image values, and awaits nothing.
C11_RoundTrip ==
    [][ (Unedited /\ savePc = "idle" /\ PageSaveSucceeds)
          => /\ storage'[1].profile = store.profile
             /\ storage'[1].portfolios = store.portfolios
             /\ \A id \in Slots : storage'[1].images[id] = store.images[id]
             /\ store' = store
             /\ (storage = <<store>> => storage' = storage)
      ]_vars

\* The record of nine entries was opened and saved at once: it is stored
\* again and the notification is up.
C11_Witness ==
    /\ Unedited /\ notification /\ used = 1
    /\ storage = <<FullRecord>>
    /\ Len(portfolioItems) = 9

\* The saveChanges calls that have started and not ended.
SavesInFlight == (IF savePc = "idle" THEN 0 ELSE 1) + Len(orphans)

\* A save button of the mounted page accepts a click
\* (disabled={!isFormValid || isSaving} is false).
SaveTriggerEnabled == route = "edit" /\ ~(~isFormValid \/ isSaving)

\* C12: at most one saveChanges call is in flight, and while one is in flight
\* no save button accepts a click.
C12_OneSaveInFlight ==
    /\ SavesInFlight <= 1
    /\ SavesInFlight > 0 => ~SaveTriggerEnabled

\* The error keys of the current draft: one per blank required field.
ErrorKeysOfDraft ==
    {<<"profile_" \o f, 0>> : f \in {g \in ProfileFields : ~NonBlank(profile[g])}}
    \cup UNION {{<<"item_" \o f, portfolioItems[i].id>> :
                    f \in {g \in {"position", "company", "startDate", "endDate",
                                  "description"} : ~NonBlank(portfolioItems[i][g])}} :
                i \in 1..Len(portfolioItems)}

\* C13: whenever a handler of the mounted page can run (the effects of the
\* last render are flushed), errors and isFormValid are those of the current
\* draft: every mutation has been followed by validateForm, and saveChanges
\* reads no value computed from an earlier draft.
C13_ValidationNeverStale ==
    (route = "edit" /\ ~effectPending)
        => /\ errors = ErrorKeysOfDraft
           /\ isFormValid = (ErrorKeysOfDraft = {} /\ NoSlotRemoved)

\* An entry of the stored record was blanked: its error key is there and the
\* draft, valid when it was opened, is invalid.
C13_Witness ==
    /\ route = "edit" /\ ~effectPending /\ used = 1
    /\ Len(portfolioItems) = 9
    /\ portfolioItems[9].position = " "
    /\ errors = {<<"item_position", 9>>}
    /\ ~isFormValid

\* C14: the ids of the entries of the draft are pairwise distinct.
C14_UniqueIds ==
    \A i, j \in 1..Len(portfolioItems) :
       i # j => portfolioItems[i].id # portfolioItems[j].id

\* C15: on the edit page there are never more object URLs created and not
\* revoked than slots in status new.
C15_PreviewUrlsReleased ==
    route = "edit"
        => Cardinality(liveUrls) <= Cardinality({id \in Slots : imageStatus[id] = "new"})

\* The steps in which an operation fails: a rejected upload, an add at
\* capacity, a save blocked by validation, a save that ends in its catch block.
FailingStep ==
    \/ \E id \in Slots, name \in FileName :
          Rejected(RawFile(name)) /\ handleFile(id, RawFile(name))
    \/ \E t \in ClockStart..(ClockStart + MaxClockSteps) :
          Len(portfolioItems) >= MaxEntries /\ addPortfolioItem(t)
    \/ saveChangesInvalid
    \/ saveChanges(FALSE)
    \/ awaitFulfilled(FALSE)
    \/ awaitRejected
    \/ \E i \in 1..Len(orphans) : orphanFulfilled(i, FALSE) \/ orphanRejected(i)

\* C16: a failing operation leaves profile, entries, image statuses and
\* pending files of the draft as they were, starts no save and no timer of a
\* save, and leaves the page's saving flag off; a save only ever starts in the
\* handler of a user event.
C16_FailuresKeepDraft ==
    [][ /\ FailingStep
            => /\ UNCHANGED <<profile, portfolioItems, imageStatus, files>>
               /\ UNCHANGED <<hideTimers, navTimers, staleHideTimers, storage>>
               /\ SavesInFlight' <= SavesInFlight
               /\ (savePc' = "idle" => ~isSaving')
               /\ isFormValid' = isFormValid
        /\ (SavesInFlight' > SavesInFlight \/ (savePc = "idle" /\ PageSaveSucceeds))
            => used' = used + 1
      ]_vars

\* A save of a draft with a new background failed: the alert is up, the file
\* is still pending and the save button is enabled again.
C16_Witness ==
    /\ route = "edit" /\ alert = FailedAlert /\ savePc = "idle"
    /\ files["background"] = RawFile("a.png")
    /\ imageStatus["background"] = "new"
    /\ isFormValid /\ ~isSaving /\ ~effectPending

\* C17: handlePreview, which the Preview button runs for a valid and for an
\* invalid draft, changes neither localStorage, the store nor the draft and
\* starts no save; the data it shows are the draft's profile and entries and,
\* per slot, a fresh object URL of the pending file when the status is new,
\* the image of the store when initial, nothing when removed: never a data
\* URL made by fileToDataUrl.
C17_PreviewShowsDraft ==
    [][ /\ handlePreview
            => /\ UNCHANGED <<storage, store, profile, portfolioItems, files,
                              imageStatus, savePc, orphans, isSaving>>
               /\ showPreview'
               /\ previewData'[1].profile = profile
               /\ previewData'[1].portfolios = portfolioItems
               /\ \A id \in Slots :
                     LET shown == previewData'[1].images[id]
                     IN  /\ imageStatus[id] = "new"
                               => /\ shown.tag = "blob" /\ shown.src = files[id].src
                                  /\ shown \notin liveUrls /\ shown \in liveUrls'
                         /\ imageStatus[id] = "initial" => shown = store.images[id]
                         /\ imageStatus[id] = "removed" => shown = Null
                         /\ shown # fileToDataUrl(files[id])
                         /\ shown # fileToDataUrl(imageCompression(files[id]))
        /\ (Ready /\ ~isSaving /\ used < MaxOps) => ENABLED handlePreview
      ]_vars

\* The preview of an invalid draft is open: a new background, the stored
\* profile image, a blank name.
C17_Witness ==
    /\ route = "edit" /\ showPreview /\ ~isFormValid
    /\ profile.name = " "
    /\ imageStatus["background"] = "new" /\ imageStatus["profile"] = "initial"
    /\ previewData[1].images["background"].tag = "blob"
    /\ previewData[1].images["background"].src = "a.png"
    /\ previewData[1].images["profile"] = EarlierRecord.images["profile"]
    /\ previewData[1].profile.name = " "

\* The ids handlePortfolioChange and removePortfolioItem are called with:
\* those of the entries acted on and one that no entry has.
IdsEdited ==
    {portfolioItems[i].id : i \in Edited(portfolioItems)} \cup {AbsentId}
IdsRemoved ==
    {portfolioItems[i].id : i \in Picked(portfolioItems)} \cup {AbsentId}

\* The effect of an entry edit on the draft and on nothing else.
EntryFieldReplaced(id, name, value) ==
    /\ Len(portfolioItems') = Len(portfolioItems)
    /\ \A i \in 1..Len(portfolioItems) :
          IF portfolioItems[i].id = id
          THEN /\ portfolioItems'[i][name] = value
               /\ \A f \in (ItemFields \cup {"id"}) \ {name} :
                     portfolioItems'[i][f] = portfolioItems[i][f]
          ELSE portfolioItems'[i] = portfolioItems[i]
    /\ (\A i \in 1..Len(portfolioItems) : portfolioItems[i].id # id)
          => portfolioItems' = portfolioItems
    /\ UNCHANGED <<profile, files, imageStatus, storage, store>>
    /\ effectPending'

\* C18: handlePortfolioChange(id, name, value) gives every entry with that id
\* the new value in the named field and leaves its other fields, every entry
\* with another id, the number and order of the entries, the profile, the
\* pending files and the image statuses as they were; with an id no entry has
\* the entries are unchanged.  Validation is scheduled either way.
C18_EntryFieldFrame ==
    [][ (used' = used + 1 /\ effectPending' /\ nextUrl' = nextUrl /\ now' = now) =>
          \A id \in IdsEdited :
             /\ \A name \in TextItemFields, value \in TextInput :
                   handlePortfolioChange(id, name, value)
                      => EntryFieldReplaced(id, name, value)
             /\ \A name \in DateItemFields, value \in DateInput :
                   handlePortfolioChange(id, name, value)
                      => EntryFieldReplaced(id, name, value)
      ]_vars

\* The company of the last of the nine stored entries was edited; its other
\* fields and the first entry are as stored.
C18_Witness ==
    /\ route = "edit" /\ used = 1 /\ Len(portfolioItems) = 9
    /\ portfolioItems[9].company = "x"
    /\ portfolioItems[9].position = "Engineer" /\ portfolioItems[9].id = 9
    /\ portfolioItems[1] = FullRecord.portfolios[1]

\* The positions of the entries whose id is not id.
KeptPositions(id) == {i \in 1..Len(portfolioItems) : portfolioItems[i].id # id}

\* C19: removePortfolioItem(id) leaves exactly the entries whose id is not id,
\* unchanged and in their previous order, and leaves the profile, the pending
\* files and the image statuses alone; with an id no entry has the list is
\* unchanged.
C19_RemoveEntryFrame ==
    [][ (used' = used + 1 /\ effectPending' /\ nextUrl' = nextUrl /\ now' = now) =>
          \A id \in IdsRemoved :
             removePortfolioItem(id)
                => /\ Len(portfolioItems') = Cardinality(KeptPositions(id))
                   /\ \A i \in KeptPositions(id) :
                         portfolioItems'[Cardinality({j \in KeptPositions(id) : j <= i})]
                            = portfolioItems[i]
                   /\ (KeptPositions(id) = 1..Len(portfolioItems))
                         => portfolioItems' = portfolioItems
                   /\ UNCHANGED <<profile, files, imageStatus, storage, store>>
                   /\ effectPending'
      ]_vars

\* The first of the nine stored entries was removed: the other eight follow
\* in their order.
C19_Witness ==
    /\ route = "edit" /\ used = 1 /\ Len(portfolioItems) = 8
    /\ \A i \in 1..8 : portfolioItems[i] = FullRecord.portfolios[i + 1]

\* After this step the home view shows the record localStorage now holds,
\* which is the draft job with its images resolved.
HomeShowsSaved(job) ==
    /\ HomeView'.profile = job.profile
    /\ HomeView'.portfolios = job.portfolios
    /\ HomeView'.profile = storage'[1].profile
    /\ HomeView'.portfolios = storage'[1].portfolios
    /\ HomeView'.backgroundImageUrl = storage'[1].images["background"]
    /\ HomeView'.profileImageUrl = storage'[1].images["profile"]
    /\ ResolvedFrom(job, [images |-> [background |-> HomeView'.backgroundImageUrl,
                                      profile |-> HomeView'.profileImageUrl]])

\* C20: before any user event the home view shows the placeholder record when
\* localStorage is empty (and the stored record otherwise); the step that ends
\* a save with a successful write makes it show exactly the profile, entries
\* and images that save wrote; the view changes in no step other than the
\* store write of a save.
C20_HomeShowsStore ==
    /\ [](used = 0 =>
            IF storage = NoRecord
            THEN /\ HomeView.profile.name = "John Doe"
                 /\ HomeView.profile.title = "Senior Frontend Developer"
                 /\ Len(HomeView.portfolios) = 1
                 /\ HomeView.portfolios[1].id = 1
                 /\ HomeView.portfolios[1].position = "Example Position"
                 /\ HomeView.backgroundImageUrl = Null
                 /\ HomeView.profileImageUrl = Null
            ELSE /\ HomeView.profile = storage[1].profile
                 /\ HomeView.portfolios = storage[1].portfolios
                 /\ HomeView.backgroundImageUrl = storage[1].images["background"]
                 /\ HomeView.profileImageUrl = storage[1].images["profile"])
    /\ [][ /\ PageSaveSucceeds => HomeShowsSaved(ActiveJob)
           /\ OrphanSaveSucceeds
                 => \E i \in 1..Len(orphans) :
                       orphans' = RemoveAt(orphans, i) /\ HomeShowsSaved(orphans[i].job)
           /\ (HomeView' # HomeView)
                 => \/ PageSaveSucceeds
                    \/ OrphanSaveSucceeds
                    \/ alert' = FailedAlert /\ SavesInFlight' <= SavesInFlight
         ]_vars

\* The home page is open after a save of a renamed profile with a new
\* background: it shows the name, the encoded background and the carried-over
\* profile image, as stored.
C20_Witness ==
    /\ route = "home"
    /\ storage # NoRecord /\ store = storage[1]
    /\ HomeView.profile.name = "x"
    /\ HomeView.backgroundImageUrl = [tag |-> "data-compressed", src |-> "a.png", n |-> 0]
    /\ HomeView.profileImageUrl = EarlierRecord.images["profile"]

\* The draft is the placeholder record: its profile, its one entry.
DraftIsPlaceholder ==
    /\ profile.name = "John Doe"
    /\ profile.title = "Senior Frontend Developer"
    /\ Len(portfolioItems) = 1
    /\ portfolioItems[1].startDate = "2023-01"
    /\ portfolioItems[1].endDate = "2025-01"

\* C21: on a fresh install (localStorage empty, no user event yet) the edit
\* page, whenever it is opened, has the placeholder profile and exactly the
\* one placeholder entry as its draft, both slots removed and no pending file;
\* isFormValid is false before and after validation runs, although every
\* required text is filled.
C21_FreshInstallDraft ==
    /\ []((storage = NoRecord /\ used = 0 /\ route = "edit")
            => /\ DraftIsPlaceholder
               /\ \A id \in Slots : imageStatus[id] = "removed" /\ files[id] = NoFile
               /\ AllRequiredFilled
               /\ ~isFormValid
               /\ errors = {})
    /\ [][ (storage = NoRecord /\ used = 0 /\ route = "home" /\ route' = "edit")
             => (profile' = placeholderData.profile
                 /\ portfolioItems' = placeholderData.portfolios
                 /\ effectPending')
         ]_vars

\* The page was opened on the empty store and validation has run: the
\* placeholder draft is invalid with no field error.
C21_Witness ==
    /\ storage = NoRecord /\ used = 0 /\ route = "edit" /\ ~effectPending
    /\ DraftIsPlaceholder
    /\ ~isFormValid /\ errors = {}
    /\ imageStatus["background"] = "removed" /\ imageStatus["profile"] = "removed"

\* A draft (of the page, or as captured by a saveChanges call) with the three
\* profile fields filled, both slots new and no entry.
MinimalDraft(job) ==
    /\ \A f \in ProfileFields : NonBlank(job.profile[f])
    /\ \A id \in Slots : job.imageStatus[id] = "new"
    /\ Len(job.portfolios) = 0

\* An encoded image: the data URL of a compressed file the user can pick.
EncodedImage(v) ==
    v # Null /\ v.tag = "data-compressed" /\ v.src \in FileName

\* The record of a minimal draft: no entry, two encoded images.
MinimalRecord(job, record) ==
    /\ record.portfolios = <<>>
    /\ record.profile = job.profile
    /\ \A id \in Slots : EncodedImage(record.images[id])

\* C22: a validated draft with the three profile fields non-blank, both
\* slots new and no entry is valid, so its save buttons accept a click unless
\* a save is running; a save of such a draft that succeeds writes a record
\* with an empty list of entries and an encoded image for both slots.
C22_MinimalValidSave ==
    /\ []((route = "edit" /\ ~effectPending /\ MinimalDraft(CurrentJob))
            => (isFormValid /\ (~isSaving => SaveTriggerEnabled)))
    /\ [][ /\ (PageSaveSucceeds /\ MinimalDraft(ActiveJob))
                => MinimalRecord(ActiveJob, storage'[1])
           /\ OrphanSaveSucceeds
                => \E i \in 1..Len(orphans) :
                      /\ orphans' = RemoveAt(orphans, i)
                      /\ MinimalDraft(orphans[i].job)
                            => MinimalRecord(orphans[i].job, storage'[1])
         ]_vars

\* A save of a minimal draft has just succeeded: no entry and two encoded
\* images are in localStorage.
C22_Witness ==
    /\ route = "edit" /\ notification /\ savePc = "idle"
    /\ MinimalDraft(CurrentJob)
    /\ storage # NoRecord
    /\ MinimalRecord(CurrentJob, storage[1])
    /\ storage[1].images["background"] = fileToDataUrl(imageCompression(files["background"]))
    /\ storage[1].images["profile"] = fileToDataUrl(imageCompression(files["profile"]))

\* C23: removing the background image of a slot that is initial (the stored
\* record has the image) makes the slot removed with no pending file and
\* leaves the stored image alone; once validation has run, a draft whose
\* background is removed is invalid whatever its texts are and its save
\* buttons are disabled; no step taken from it starts a save, and a call of
\* saveChanges ends in the validation alert with localStorage, and the
\* background image it holds, unchanged.
C23_RemoveThenBlocked ==
    /\ []((route = "edit" /\ ~effectPending /\ imageStatus["background"] = "removed")
            => (~isFormValid /\ ~SaveTriggerEnabled))
    /\ [][ /\ (imageStatus["background"] = "initial" /\ removeImage("background"))
                => /\ imageStatus'["background"] = "removed"
                   /\ files'["background"] = NoFile
                   /\ effectPending'
                   /\ Truthy(store.images["background"])
                   /\ UNCHANGED <<storage, store>>
           /\ (Ready /\ imageStatus["background"] = "removed")
                => /\ SavesInFlight' <= SavesInFlight
                   /\ savePc = "idle" => hideTimers' <= hideTimers
           /\ (saveChangesInvalid /\ imageStatus["background"] = "removed")
                => /\ alert' = InvalidAlert
                   /\ UNCHANGED <<storage, store, isSaving, savePc, hideTimers,
                                  navTimers, notification, imageStatus>>
           /\ (Ready /\ imageStatus["background"] = "removed" /\ used < MaxOps)
                => ENABLED saveChangesInvalid
         ]_vars

\* The stored background was removed from a draft whose texts are all filled
\* and saveChanges was then called: the validation alert is up and
\* localStorage still holds the background image.
C23_Witness ==
    /\ route = "edit" /\ alert = InvalidAlert /\ used = 2
    /\ imageStatus["background"] = "removed" /\ imageStatus["profile"] = "initial"
    /\ AllRequiredFilled /\ ~isFormValid
    /\ storage = <<EarlierRecord>>
    /\ Truthy(storage[1].images["background"])

\* C24: setPortfolioData(data) gives every key of profile, portfolios and
\* images that data has the value data has for it and leaves every key data
\* does not have at its previous value; the state keeps exactly its three
\* keys, and localStorage then holds the whole merged state.
C24_SetPortfolioDataMerges ==
    [][ \A data \in PartialData :
          callSetPortfolioData(data)
             => /\ DOMAIN store' = {"profile", "portfolios", "images"}
                /\ \A k \in {"profile", "portfolios", "images"} :
                      /\ k \in DOMAIN data => store'[k] = data[k]
                      /\ k \notin DOMAIN data => store'[k] = store[k]
                /\ storage' = <<store'>>
      ]_vars

\* After one call with a profile only, the store has that profile next to
\* the nine entries and the two images of the record it started from.
C24_Witness ==
    /\ route = "home" /\ used = 1
    /\ store.profile = [name |-> "Bob", title |-> "Ops", description |-> "Bio"]
    /\ store.portfolios = FullRecord.portfolios
    /\ store.images = FullRecord.images
    /\ storage = <<store>>

\* Every handler that changes the draft accepts its event.
MutationsEnabled ==
    /\ \A name \in ProfileFields, value \in TextInput :
          ENABLED handleProfileChange(name, value)
    /\ \A i \in 1..Len(portfolioItems) :
          /\ ENABLED handlePortfolioChange(portfolioItems[i].id, "company", "x")
          /\ ENABLED removePortfolioItem(portfolioItems[i].id)
    /\ ENABLED addPortfolioItem(now)
    /\ \A id \in Slots :
          /\ \A name \in FileName : ENABLED handleFile(id, RawFile(name))
          /\ Truthy(previewUrl[id]) => ENABLED removeImage(id)

\* record is what saveChanges writes for the draft job captured at its call.
WrittenFrom(job, record) ==
    /\ record.profile = job.profile
    /\ record.portfolios = job.portfolios
    /\ ResolvedFrom(job, record)

\* C25: while a saveChanges call of the mounted page is suspended, every
\* handler that changes the draft still accepts its event; the call works on
\* the draft as it was when it was invoked (no later step changes the values
\* it holds), the record it writes has that draft's profile, entries and
\* resolved images, and the write leaves the current draft, with whatever was
\* changed meanwhile, as it is.  The same holds for a call whose page has
\* been left.
C25_InFlightEditsNotWritten ==
    /\ []((Ready /\ savePc # "idle" /\ used < MaxOps) => MutationsEnabled)
    /\ [][ /\ (savePc = "idle" /\ savePc' # "idle")
                => /\ saveJob'.profile = profile
                   /\ saveJob'.portfolios = portfolioItems
                   /\ saveJob'.files = files
                   /\ saveJob'.imageStatus = imageStatus
                   /\ saveJob'.images = store.images
           /\ (savePc # "idle" /\ savePc' # "idle") => saveJob' = saveJob
           /\ (savePc # "idle" /\ PageSaveSucceeds)
                => /\ WrittenFrom(saveJob, storage'[1])
                   /\ UNCHANGED <<profile, portfolioItems, files, imageStatus>>
           /\ (Len(orphans') > Len(orphans))
                => /\ orphans'[Len(orphans')].job = saveJob
                   /\ SubSeq(orphans', 1, Len(orphans)) = orphans
           /\ (Len(orphans') = Len(orphans))
                => \A i \in 1..Len(orphans) : orphans'[i].job = orphans[i].job
           /\ OrphanSaveSucceeds
                => /\ \E i \in 1..Len(orphans) :
                         /\ orphans' = RemoveAt(orphans, i)
                         /\ WrittenFrom(orphans[i].job, storage'[1])
                   /\ UNCHANGED <<profile, portfolioItems, files, imageStatus>>
         ]_vars

\* The name was blanked while the save of a new background was in flight: the
\* save has succeeded, localStorage has the name the draft had when the save
\* was invoked, and the draft has the blank name.
C25_Witness ==
    /\ route = "edit" /\ savePc = "idle" /\ notification
    /\ storage # NoRecord /\ storage # <<EarlierRecord>>
    /\ storage[1].profile.name = "Ann"
    /\ profile.name = " "
    /\ storage[1].images["background"] = fileToDataUrl(imageCompression(RawFile("a.png")))
    /\ ~effectPending /\ ~isFormValid

\* The status a page that opens now gives slot id.
StatusAtOpen(id) == IF store.images[id] # Null THEN "initial" ELSE "removed"

\* C26: a page that opens (the first mount, and every later one) gives a slot
\* the status initial exactly when the store holds an image for it and removed
\* otherwise; on the mounted page a slot in status initial always has an image
\* in the store, and so has every slot that was initial when a saveChanges
\* call still running was invoked.
C26_InitialHasStoredImage ==
    /\ []((route = "edit" /\ used = 0)
             => \A id \in Slots : imageStatus[id] = StatusAtOpen(id))
    /\ [](route = "edit"
             => \A id \in Slots : imageStatus[id] = "initial" => store.images[id] # Null)
    /\ [](savePc # "idle"
             => \A id \in Slots :
                   saveJob.imageStatus[id] = "initial" => saveJob.images[id] # Null)
    /\ [](\A i \in 1..Len(orphans) : \A id \in Slots :
             orphans[i].job.imageStatus[id] = "initial" => orphans[i].job.images[id] # Null)
    /\ [][ (route = "home" /\ route' = "edit")
              => \A id \in Slots :
                    /\ imageStatus'[id] = StatusAtOpen(id)
                    /\ imageStatus'[id] \in {"initial", "removed"}
                    /\ files'[id] = NoFile
         ]_vars

\* The page was opened again after a save of this session: the background is
\* initial on the image that save encoded, and the profile slot is initial on
\* the image of the earlier record.
C26_Witness ==
    /\ route = "edit" /\ used > 0
    /\ imageStatus["background"] = "initial" /\ imageStatus["profile"] = "initial"
    /\ store.images["background"] = fileToDataUrl(imageCompression(RawFile("a.png")))
    /\ store.images["profile"] = EarlierRecord.images["profile"]

\* C27: on the mounted page a slot has a pending file exactly when its status
\* is new, and the same holds for the draft a running saveChanges call of
\* the page captured.
C27_PendingFileIffNew ==
    /\ route = "edit"
          => \A id \in Slots : (files[id] # NoFile) <=> (imageStatus[id] = "new")
    /\ savePc # "idle"
          => \A id \in Slots :
                (saveJob.files[id] # NoFile) <=> (saveJob.imageStatus[id] = "new")

\* The background is new with b.jpg pending; the profile image was replaced
\* by a file and then removed: no file is pending for it.
C27_Witness ==
    /\ route = "edit" /\ nextUrl = 2
    /\ imageStatus["background"] = "new" /\ files["background"] = RawFile("b.jpg")
    /\ imageStatus["profile"] = "removed" /\ files["profile"] = NoFile
    /\ Truthy(store.images["profile"])

\* C28: on the mounted page isSaving is true exactly while a saveChanges call
\* has started and not finished.
C28_SavingIffInFlight ==
    route = "edit" => (isSaving <=> SavesInFlight > 0)

\* C29: on the mounted page each upload box shows a preview exactly when the
\* status of its slot is not removed.
C29_PreviewIffNotRemoved ==
    route = "edit"
        => \A id \in Slots : Truthy(previewUrl[id]) <=> (imageStatus[id] # "removed")

\* The steps in which a saveChanges call is blocked by validation or ends in
\* its catch block.
BlockedOrFailedSave ==
    \/ saveChangesInvalid
    \/ saveChanges(FALSE)
    \/ awaitFulfilled(FALSE)
    \/ awaitRejected
    \/ \E i \in 1..Len(orphans) : orphanFulfilled(i, FALSE) \/ orphanRejected(i)

\* C30: the step that ends a save of the mounted page with a successful write
\* shows the notification; its 2000 ms timer hides the notification and
\* starts the 500 ms timer of the navigation; the application leaves the edit page for the home
\* page only while the notification is hidden; a save that is blocked or
\* fails neither shows the notification nor starts a timer nor navigates.
C30_ShownHiddenThenHome ==
    [][ /\ PageSaveSucceeds => (notification' /\ route' = "edit" /\ navTimers' = navTimers)
        /\ (hideTimers' < hideTimers /\ route' = "edit")
              => (~notification' /\ navTimers' = navTimers + 1)
        /\ (route = "edit" /\ route' = "home" /\ navTimers' < navTimers) => ~notification
        /\ BlockedOrFailedSave
              => /\ notification' = notification
                 /\ UNCHANGED <<hideTimers, navTimers, staleHideTimers, route>>
      ]_vars

====
